---- MODULE Spec2Model ----
(***************************************************************************)
(* trendspy: the adaptive admission-control core.                          *)
(*                                                                         *)
(* AdaptiveRateLimiter (src/src/trendspy/rate_limiter.py),                 *)
(* DegradationManager (src/src/trendspy/degradation_manager.py),           *)
(* QuotaAnalyzer (src/src/trendspy/quota_analyzer.py), MetricsCollector    *)
(* (src/src/trendspy/metrics.py) and ConfigTuner                           *)
(* (src/src/trendspy/config_tuner.py).  The components                     *)
(* share no state but the clock: each has its own specification, in which  *)
(* the others stay as constructed.                                         *)
(*                                                                         *)
(* Time is counted in whole seconds on one clock, `now`, which stands for  *)
(* both time.time() and datetime.now().  A sleep of s seconds ends at the  *)
(* first clock reading that is at least s later, or a little after it.     *)
(* delay_multiplier is a float in the code; here it is held in fixed point *)
(* as a multiple of 1/MultScale, a scale in which every value the code can *)
(* produce that is above 1.0 is exact.  A jitter factor is a multiple of   *)
(* 1/JitterScale.                                                          *)
(***************************************************************************)
EXTENDS Integers, Sequences, FiniteSets, TLC

VARIABLES
    \* the limiter's configuration, fixed by __init__
    requests_per_hour, base_delay, emergency_threshold, emergency_multiplier,
    \* the limiter's state
    request_times, consecutive_failures, emergency_mode, last_request_time,
    delay_multiplier,
    \* the clock
    now,
    \* the most recent step: the method called, what it raised and what it
    \* returned ("advance" when time passed)
    ret,
    \* history: the instants at which wait_if_needed returned, and the number
    \* of calls since construction or the last reset when each of them was a
    \* record_failure (-1 once wait_if_needed or record_success has been called)
    returns, failure_calls,
    \* the threads that share the limiter: where each of them is inside the
    \* method it called ("idle" outside any), and the value it holds in a
    \* local (the instant its sleep ends, the counter it read)
    pc, local,
    \* the degradation manager's configuration, fixed by __init__
    minor_threshold, major_threshold, recovery_successes,
    \* the degradation manager's state
    health_state, consecutive_429s, consecutive_successes,
    \* the manager's most recent call: the method, its argument and what it
    \* returned
    health_call,
    \* history of the manager's calls: the number of calls since construction
    \* or the last reset when each of them was update_health(True) (-1 once
    \* update_health(False) has been called); the number of update_health(True)
    \* calls since the last update_health(False), reset or construction; the
    \* number of update_health(False) calls since the last update_health(True),
    \* reset or construction, and the health state when the first of them
    \* was made
    rejection_calls, rejection_streak, success_streak, streak_start,
    \* the quota analyzer's configuration, fixed by __init__
    history_size,
    \* the quota analyzer's state
    success_timestamps, failure_timestamps, detected_window,
    \* the analyzer's most recent call: the method, its argument and what it
    \* returned ("tick" when time passed)
    quota_call,
    \* the analyzer's caller: the successes it is going to record and the
    \* departures from its routine it is going to make; the interval at which
    \* it is issuing requests, whether it has recorded a success at the present
    \* clock reading, the successes it has recorded, and the departures from
    \* its routine so far (failures recorded, timestamps supplied, changes of
    \* pace, resets)
    requests_planned, disturbances_planned,
    pace, success_now, successes_recorded, disturbances,
    \* the metrics collector's configuration, fixed by __init__
    window_size,
    \* the metrics collector's totals and its rolling window of response
    \* times.  The fields that record_request only overwrites or appends
    \* (status_codes, current_delay, consecutive_failures, emergency_mode,
    \* the timestamps and the per-minute counts) are read by no method
    \* modelled here and are left out.
    requests_total, requests_success, requests_429, requests_failed,
    response_times,
    \* the collector's most recent call: the method and what it returned
    metrics_call,
    \* the service the collector observes: whether its responses are
    \* getting slower ("rising") or faster ("falling")
    trend,
    \* the config tuner's state, and the history file it loads and saves
    performance_history, history_file,
    \* the tuner's most recent call: the method, its argument and what it
    \* returned ("restart" when a new ConfigTuner was made on the same file)
    tuner_call,
    \* the tuner's caller: the session it usually records, and its departures
    \* from that routine so far (other sessions recorded, saves that failed)
    routine, departures

config == <<requests_per_hour, base_delay, emergency_threshold, emergency_multiplier>>
limiter == <<request_times, consecutive_failures, emergency_mode, last_request_time,
             delay_multiplier>>
history == <<returns, failure_calls>>
health_config == <<minor_threshold, major_threshold, recovery_successes>>
health == <<health_state, consecutive_429s, consecutive_successes>>
health_history == <<rejection_calls, rejection_streak, success_streak, streak_start>>
degradation == <<health_config, health, health_call, health_history>>
threads == <<pc, local>>
rate_limiting == <<config, limiter, now, ret, history, threads>>
quota_history == <<success_timestamps, failure_timestamps>>
quota_plan == <<requests_planned, disturbances_planned>>
quota_caller == <<quota_plan, pace, success_now, successes_recorded, disturbances>>
quota == <<history_size, quota_history, detected_window, quota_call, quota_caller>>
totals == <<requests_total, requests_success, requests_429, requests_failed>>
collector == <<window_size, totals, response_times, metrics_call, trend>>
tuner == <<performance_history, history_file, tuner_call, routine, departures>>
\* what no method of the rate limiter touches when one caller runs it from
\* beginning to end
outside_limiter == <<threads, degradation, quota, collector, tuner>>
\* what no method of the rate limiter touches
outside_threads == <<degradation, quota, collector, tuner>>
\* what no method of the degradation manager touches
outside_degradation == <<rate_limiting, quota, collector, tuner>>
\* what no method of the quota analyzer touches, the clock apart
outside_quota == <<config, limiter, ret, history, threads, degradation, collector,
                   tuner>>
\* what no method of the metrics collector touches
outside_collector == <<rate_limiting, degradation, quota, tuner>>
\* what no method of the config tuner touches
outside_tuner == <<rate_limiting, degradation, quota, collector>>
vars == <<rate_limiting, degradation, quota, collector, tuner>>

----------------------------------------------------------------------------
(* Bounds of the model *)

\* wait_if_needed calls that return, per behaviour
MaxCalls == 2
\* record_failure calls in a row
MaxFailures == 7
\* seconds a sleep may overrun
MaxOversleep == 1
\* a pause between two calls that is shorter than any pacing delay
ShortGap == 3

(* Program constants *)

\* timedelta(hours=1), in seconds
Hour == 3600
\* time.sleep(wait_seconds + 1)
SafetyMargin == 1
\* the clock reading at construction: time.time() is positive
StartTime == 1

\* fixed point of delay_multiplier: 1.0 is MultScale
MultScale == 1250
\* fixed point of the jitter factor: 1.0 is JitterScale
JitterScale == 20

\* random.uniform(0.85, 1.15): the two ends of the interval
NormalJitter == {17, 23}
\* random.uniform(0.75, 1.25): the two ends of the interval
EmergencyJitter == {15, 25}

\* __init__'s arguments: the configurations explored
Configs ==
    { [rph |-> 2, base |-> 20, thr |-> 3, mult |-> 3],
      [rph |-> 1, base |-> 5, thr |-> 1, mult |-> 2],
      [rph |-> 0, base |-> 20, thr |-> 5, mult |-> 3] }

----------------------------------------------------------------------------
(* Helpers *)

Max(a, b) == IF a >= b THEN a ELSE b

\* the least integer n with n * d >= x, for d > 0
CeilDiv(x, d) == IF x <= 0 THEN 0 ELSE ((x - 1) \div d) + 1

Call(op, value) == [op |-> op, exc |-> "none", value |-> value]

Raised(op, exc) == [op |-> op, exc |-> exc, value |-> "None"]

----------------------------------------------------------------------------
(* __init__ *)

\* the threads that may call the limiter at once
Threads == {1, 2}

FreshLimiter(c) ==
    /\ requests_per_hour = c.rph
    /\ base_delay = c.base
    /\ emergency_threshold = c.thr
    /\ emergency_multiplier = c.mult
    /\ request_times = << >>
    /\ consecutive_failures = 0
    /\ emergency_mode = FALSE
    /\ last_request_time = 0
    /\ delay_multiplier = MultScale
    /\ now = StartTime
    /\ ret = Call("__init__", "None")
    /\ returns = << >>
    /\ failure_calls = 0
    /\ pc = [t \in Threads |-> "idle"]
    /\ local = [t \in Threads |-> 0]

InitLimiter == \E c \in Configs : FreshLimiter(c)

\* AdaptiveRateLimiter(): the defaults of __init__
DefaultLimiter == [rph |-> 200, base |-> 15, thr |-> 5, mult |-> 3]

----------------------------------------------------------------------------
(* wait_if_needed and _enforce_hourly_limit *)

\* base_delay * delay_multiplier, times emergency_multiplier in emergency
\* mode: seconds, in units of 1/MultScale
effective_delay(b, m, em, emult) == b * m * (IF em THEN emult ELSE 1)

\* pacing as it was before the adaptive multiplier: base_delay and jitter only
pacing_wake_base_only(current_time, lrt, b, m, em, emult, j, o) ==
    IF lrt > 0 /\ (current_time - lrt) * JitterScale < b * j
    THEN lrt + CeilDiv(b * j, JitterScale) + o
    ELSE current_time

\* The clock when the pacing step of wait_if_needed is over: entered at
\* current_time with jitter j, the sleep overrunning by o.
pacing_wake(current_time, lrt, b, m, em, emult, j, o) ==
    IF lrt > 0
    THEN LET time_since_last == current_time - lrt
             eff == effective_delay(b, m, em, emult) * j
             unit == MultScale * JitterScale
         IN  IF time_since_last * unit < eff
             THEN lrt + CeilDiv(eff, unit) + o
             ELSE current_time
    ELSE current_time

\* while self.request_times and self.request_times[0] < one_hour_ago: popleft()
RECURSIVE pop_expired(_, _)
pop_expired(rt, one_hour_ago) ==
    IF rt # << >> /\ Head(rt) < one_hour_ago
    THEN pop_expired(Tail(rt), one_hour_ago)
    ELSE rt

\* the capacity test off by one
at_capacity_strict(rt, rph) == Len(rt) > rph

\* len(self.request_times) >= self.requests_per_hour
at_capacity(rt, rph) == Len(rt) >= rph

\* The clock when _enforce_hourly_limit is over: entered at t with the
\* window rt already purged and holding an entry, the sleep overrunning by o.
hourly_wake(rt, t, rph, o) ==
    IF at_capacity(rt, rph)
    THEN LET oldest == rt[1]
             wait_seconds == (oldest + Hour) - t
         IN  IF wait_seconds > 0
             THEN t + wait_seconds + SafetyMargin + o
             ELSE t
    ELSE t

\* deque(maxlen=requests_per_hour).append(x)
deque_append(rt, x, maxlen) ==
    IF maxlen = 0 THEN rt
    ELSE IF Len(rt) >= maxlen THEN Append(Tail(rt), x)
    ELSE Append(rt, x)

wait_if_needed ==
    /\ Len(returns) < MaxCalls
    /\ \E j \in (IF emergency_mode THEN EmergencyJitter ELSE NormalJitter),
          o \in 0..MaxOversleep :
          LET t1 == pacing_wake(now, last_request_time, base_delay,
                                delay_multiplier, emergency_mode,
                                emergency_multiplier, j, o)
              purged == pop_expired(request_times, t1 - Hour)
          IN  IF at_capacity(purged, requests_per_hour) /\ purged = << >>
              THEN \* self.request_times[0] on an empty deque
                   /\ now' = t1
                   /\ request_times' = purged
                   /\ ret' = Raised("wait_if_needed", "IndexError")
                   /\ UNCHANGED <<last_request_time, returns>>
              ELSE LET t2 == hourly_wake(purged, t1, requests_per_hour, o)
                   IN  /\ now' = t2
                       /\ last_request_time' = t2
                       /\ request_times' = deque_append(purged, t2, requests_per_hour)
                       /\ ret' = Call("wait_if_needed", "None")
                       /\ returns' = Append(returns, t2)
    /\ failure_calls' = -1
    /\ UNCHANGED <<config, consecutive_failures, emergency_mode, delay_multiplier>>
    /\ UNCHANGED outside_limiter

\* a cancelled call recorded as a request all the same
cancelled_recorded(rt, lrt, t, maxlen) == <<deque_append(rt, t, maxlen), t>>

\* <<request_times, last_request_time>> when time.sleep raises at t inside
\* wait_if_needed: the exception leaves the method before the request is
\* recorded
cancelled(rt, lrt, t, maxlen) == <<rt, lrt>>

\* the instants at which a sleep from t to wake is cancelled: as it
\* begins, or a second before it would end
CancelInstants(t, wake) == {t, Max(t, wake - 1)}

\* wait_if_needed with the caller cancelling one of its two sleeps
\* (KeyboardInterrupt raised in time.sleep).  A pacing sleep that is
\* followed by a cancelled hourly sleep ended on time.
wait_if_needed_cancelled ==
    /\ \E j \in (IF emergency_mode THEN EmergencyJitter ELSE NormalJitter) :
          LET wake == pacing_wake(now, last_request_time, base_delay,
                                  delay_multiplier, emergency_mode,
                                  emergency_multiplier, j, 0)
              t1 == wake
              purged == pop_expired(request_times, t1 - Hour)
          IN  \/ \* time.sleep(sleep_time) raises
                 /\ wake > now
                 /\ \E c \in CancelInstants(now, wake) :
                       LET after == cancelled(request_times, last_request_time, c,
                                              requests_per_hour)
                       IN  /\ now' = c
                           /\ request_times' = after[1]
                           /\ last_request_time' = after[2]
                 /\ ret' = [Raised("wait_if_needed", "KeyboardInterrupt")
                               EXCEPT !.value = "pacing"]
              \/ \* time.sleep(wait_seconds + 1) raises
                 /\ purged # << >>
                 /\ hourly_wake(purged, t1, requests_per_hour, 0) > t1
                 /\ \E c \in CancelInstants(t1, hourly_wake(purged, t1,
                                                            requests_per_hour, 0)) :
                       LET after == cancelled(purged, last_request_time, c,
                                              requests_per_hour)
                       IN  /\ now' = c
                           /\ request_times' = after[1]
                           /\ last_request_time' = after[2]
                 /\ ret' = [Raised("wait_if_needed", "KeyboardInterrupt")
                               EXCEPT !.value = "hourly"]
    /\ failure_calls' = -1
    /\ UNCHANGED <<config, consecutive_failures, emergency_mode, delay_multiplier,
                   returns>>
    /\ UNCHANGED outside_limiter

----------------------------------------------------------------------------
(* record_success, record_failure, reset *)

\* the decay without its floor of 1.0
recovered_no_floor(m) == IF m > MultScale THEN (m * 8) \div 10 ELSE m

\* recovery all at once instead of by a factor of 0.8
recovered_at_once(m) == MultScale

\* recovery by a factor of 0.9
recovered_slowly(m) ==
    IF m > MultScale THEN Max(MultScale, (m * 9) \div 10) ELSE m

\* max(1.0, self.delay_multiplier * 0.8), applied when the multiplier is above 1.0
recovered_multiplier(m) ==
    IF m > MultScale THEN Max(MultScale, (m * 8) \div 10) ELSE m

record_success ==
    /\ consecutive_failures' = 0
    /\ emergency_mode' = FALSE
    /\ delay_multiplier' = recovered_multiplier(delay_multiplier)
    /\ ret' = Call("record_success", "None")
    /\ failure_calls' = -1
    /\ UNCHANGED <<config, request_times, last_request_time, now, returns>>
    /\ UNCHANGED outside_limiter

\* emergency mode entered one failure late
escalated_late(n, m, em) ==
    IF n = 1 THEN <<(3 * MultScale) \div 2, em>>
    ELSE IF n = 2 THEN <<2 * MultScale, em>>
    ELSE IF n > 3 /\ ~em THEN <<3 * MultScale, TRUE>>
    ELSE <<m, em>>

\* emergency mode entered with the multiplier of the second failure kept
escalated_softly(n, m, em) ==
    IF n = 1 THEN <<(3 * MultScale) \div 2, em>>
    ELSE IF n = 2 THEN <<2 * MultScale, em>>
    ELSE IF n >= 3 /\ ~em THEN <<m, TRUE>>
    ELSE <<m, em>>

\* the three branches of record_failure, on the incremented counter n:
\* the new <<delay_multiplier, emergency_mode>>
escalated(n, m, em) ==
    IF n = 1 THEN <<(3 * MultScale) \div 2, em>>
    ELSE IF n = 2 THEN <<2 * MultScale, em>>
    ELSE IF n >= 3 /\ ~em THEN <<3 * MultScale, TRUE>>
    ELSE <<m, em>>

record_failure ==
    /\ consecutive_failures < MaxFailures
    /\ LET n == consecutive_failures + 1
           e == escalated(n, delay_multiplier, emergency_mode)
       IN  /\ consecutive_failures' = n
           /\ delay_multiplier' = e[1]
           /\ emergency_mode' = e[2]
    /\ ret' = Call("record_failure", "None")
    /\ failure_calls' = IF failure_calls >= 0 THEN failure_calls + 1 ELSE -1
    /\ UNCHANGED <<config, request_times, last_request_time, now, returns>>
    /\ UNCHANGED outside_limiter

reset ==
    /\ consecutive_failures' = 0
    /\ emergency_mode' = FALSE
    /\ delay_multiplier' = MultScale
    /\ request_times' = << >>
    /\ ret' = Call("reset", "None")
    /\ failure_calls' = 0
    /\ UNCHANGED <<config, last_request_time, now, returns>>
    /\ UNCHANGED outside_limiter

----------------------------------------------------------------------------
(* should_circuit_break, get_stats *)

circuit_breaker_threshold(thr) == thr * 2

\* the comparison off by one
should_break_strict(failures, thr) == failures > circuit_breaker_threshold(thr)

should_break(failures, thr) == failures >= circuit_breaker_threshold(thr)

should_circuit_break ==
    /\ ret' = Call("should_circuit_break",
                   should_break(consecutive_failures, emergency_threshold))
    /\ UNCHANGED <<config, limiter, now, history>>
    /\ UNCHANGED outside_limiter

\* the dictionary get_stats returns, without utilization_pct;
\* effective_delay in units of 1/MultScale seconds
stats ==
    [ requests_last_hour |-> Len(request_times),
      requests_per_hour_limit |-> requests_per_hour,
      consecutive_failures |-> consecutive_failures,
      emergency_mode |-> emergency_mode,
      base_delay |-> base_delay,
      delay_multiplier |-> delay_multiplier,
      effective_delay |-> effective_delay(base_delay, delay_multiplier,
                                          emergency_mode, emergency_multiplier),
      circuit_breaker_threshold |-> circuit_breaker_threshold(emergency_threshold) ]

get_stats ==
    /\ IF requests_per_hour = 0
       THEN \* len(self.request_times) / self.requests_per_hour
            ret' = Raised("get_stats", "ZeroDivisionError")
       ELSE ret' = Call("get_stats", stats)
    /\ UNCHANGED <<config, limiter, now, history>>
    /\ UNCHANGED outside_limiter

----------------------------------------------------------------------------
(* The clock *)

\* Time passes between two calls: a short pause, or an hour.  The clock is
\* moved once between two admitted requests, and not before the first one,
\* which no earlier instant can bear on.
Gaps == {ShortGap, Hour}

advance ==
    /\ now = last_request_time
    /\ \E d \in Gaps : now' = now + d
    /\ ret' = Call("advance", "None")
    /\ UNCHANGED <<config, limiter, history>>
    /\ UNCHANGED outside_limiter

----------------------------------------------------------------------------
(* Two threads on one limiter *)

\* The methods take no lock.  A thread runs a method as the steps below,
\* and the other thread may run between any two of them: time.sleep and
\* every call let another thread in, and the read and the write of
\* `self.consecutive_failures += 1` are two steps.  A sleep ends on time,
\* or at the present clock reading if that is later.

\* lines 97-125 up to the sleep: the clock and last_request_time are read
\* and the pacing sleep is decided
wait_begin(t) ==
    /\ pc[t] = "idle"
    /\ Len(returns) < MaxCalls
    /\ \E j \in (IF emergency_mode THEN EmergencyJitter ELSE NormalJitter) :
          LET wake == pacing_wake(now, last_request_time, base_delay,
                                  delay_multiplier, emergency_mode,
                                  emergency_multiplier, j, 0)
          IN  /\ pc' = [pc EXCEPT ![t] = IF wake > now THEN "pacing" ELSE "hourly"]
              /\ local' = [local EXCEPT ![t] = wake]
    /\ UNCHANGED <<config, limiter, now, ret, history>>
    /\ UNCHANGED outside_threads

\* time.sleep(sleep_time) returns
pacing_done(t) ==
    /\ pc[t] = "pacing"
    /\ now' = Max(now, local[t])
    /\ pc' = [pc EXCEPT ![t] = "hourly"]
    /\ UNCHANGED <<config, limiter, ret, history, local>>
    /\ UNCHANGED outside_threads

\* _enforce_hourly_limit up to its sleep
enforce_hourly_limit(t) ==
    /\ pc[t] = "hourly"
    /\ LET purged == pop_expired(request_times, now - Hour)
       IN  /\ request_times' = purged
           /\ IF at_capacity(purged, requests_per_hour) /\ purged = << >>
              THEN \* self.request_times[0] on an empty deque
                   /\ ret' = Raised("wait_if_needed", "IndexError")
                   /\ pc' = [pc EXCEPT ![t] = "idle"]
                   /\ UNCHANGED <<local, failure_calls>>
              ELSE LET wake == hourly_wake(purged, now, requests_per_hour, 0)
                   IN  /\ pc' = [pc EXCEPT ![t] = IF wake > now THEN "quota" ELSE "record"]
                       /\ local' = [local EXCEPT ![t] = wake]
                       /\ UNCHANGED <<ret, failure_calls>>
    /\ UNCHANGED <<config, consecutive_failures, emergency_mode, last_request_time,
                   delay_multiplier, now, returns>>
    /\ UNCHANGED outside_threads

\* time.sleep(wait_seconds + 1) returns
quota_done(t) ==
    /\ pc[t] = "quota"
    /\ now' = Max(now, local[t])
    /\ pc' = [pc EXCEPT ![t] = "record"]
    /\ UNCHANGED <<config, limiter, ret, history, local>>
    /\ UNCHANGED outside_threads

\* lines 131-132: the request is recorded and wait_if_needed returns
record_request_time(t) ==
    /\ pc[t] = "record"
    /\ last_request_time' = now
    /\ request_times' = deque_append(request_times, now, requests_per_hour)
    /\ returns' = Append(returns, now)
    /\ failure_calls' = -1
    /\ ret' = Call("wait_if_needed", "None")
    /\ pc' = [pc EXCEPT ![t] = "idle"]
    /\ UNCHANGED <<config, consecutive_failures, emergency_mode, delay_multiplier,
                   now, local>>
    /\ UNCHANGED outside_threads

\* record_failure, line 195: self.consecutive_failures is read
failure_read(t) ==
    /\ pc[t] = "idle"
    /\ consecutive_failures < MaxFailures
    /\ pc' = [pc EXCEPT ![t] = "adding"]
    /\ local' = [local EXCEPT ![t] = consecutive_failures]
    /\ UNCHANGED <<config, limiter, now, ret, history>>
    /\ UNCHANGED outside_threads

\* record_failure, line 195 and on: the sum is stored and the branches
\* are taken on it
failure_write(t) ==
    /\ pc[t] = "adding"
    /\ LET n == local[t] + 1
           e == escalated(n, delay_multiplier, emergency_mode)
       IN  /\ consecutive_failures' = n
           /\ delay_multiplier' = e[1]
           /\ emergency_mode' = e[2]
    /\ ret' = Call("record_failure", "None")
    /\ failure_calls' = IF failure_calls >= 0 THEN failure_calls + 1 ELSE -1
    /\ pc' = [pc EXCEPT ![t] = "idle"]
    /\ UNCHANGED <<config, request_times, last_request_time, now, returns, local>>
    /\ UNCHANGED outside_threads

----------------------------------------------------------------------------
(* DegradationManager *)

\* update_health(True) calls explored while consecutive_429s is below this
MaxRejections == 11
\* update_health(False) calls explored while consecutive_successes is below this
MaxSuccesses == 7

\* HealthState
HealthStates == {"healthy", "degraded_minor", "degraded_major", "recovery"}

\* Priority
Priorities == {"LOW", "MEDIUM", "HIGH"}

\* DegradationManager(): the defaults of __init__
DefaultDegradation == [minor |-> 5, major |-> 10, recovery |-> 3]

\* __init__'s arguments: the configurations explored, minor_threshold below
\* major_threshold in each
DegradationConfigs ==
    { DefaultDegradation,
      [minor |-> 2, major |-> 4, recovery |-> 2],
      [minor |-> 1, major |-> 2, recovery |-> 1],
      [minor |-> 5, major |-> 10, recovery |-> 1] }

HealthCall(op, arg, value) == [op |-> op, arg |-> arg, value |-> value]

FreshDegradation(c) ==
    /\ minor_threshold = c.minor
    /\ major_threshold = c.major
    /\ recovery_successes = c.recovery
    /\ health_state = "healthy"
    /\ consecutive_429s = 0
    /\ consecutive_successes = 0
    /\ health_call = HealthCall("__init__", "None", "None")
    /\ rejection_calls = 0
    /\ rejection_streak = 0
    /\ success_streak = 0
    /\ streak_start = "none"

InitDegradation == \E c \in DegradationConfigs : FreshDegradation(c)

\* each threshold taking effect one rejection late
degraded_late(n, minor, major, state) ==
    IF n > major THEN "degraded_major"
    ELSE IF n > minor THEN "degraded_minor"
    ELSE state

\* each threshold taking effect one rejection early
degraded_early(n, minor, major, state) ==
    IF n + 1 >= major THEN "degraded_major"
    ELSE IF n + 1 >= minor THEN "degraded_minor"
    ELSE state

\* update_health(True): the health state for n rejections counted
degraded(n, minor, major, state) ==
    IF n >= major THEN "degraded_major"
    ELSE IF n >= minor THEN "degraded_minor"
    ELSE state

\* the 429 counter reset by a success
reset_429s(n) == 0

\* update_health(False): the 429 counter reduced, not reset
reduced_429s(n) == IF n > 0 THEN Max(0, n - 1) ELSE n

\* recovery beginning one success late
recovered_late(s, r, state) ==
    IF s > r
    THEN IF s >= r * 2 THEN "healthy"
         ELSE IF state # "healthy" THEN "recovery"
         ELSE state
    ELSE state

\* recovery without the promotion to healthy
recovered_halfway(s, r, state) ==
    IF s >= r /\ state # "healthy" THEN "recovery" ELSE state

\* update_health(False): the health state for s successes in a row
recovered(s, r, state) ==
    IF s >= r
    THEN IF s >= r * 2 THEN "healthy"
         ELSE IF state # "healthy" THEN "recovery"
         ELSE state
    ELSE state

update_health ==
    \E got_429 \in BOOLEAN :
       /\ IF got_429
          THEN /\ consecutive_429s < MaxRejections
               /\ consecutive_429s' = consecutive_429s + 1
               /\ consecutive_successes' = 0
               /\ health_state' = degraded(consecutive_429s + 1, minor_threshold,
                                           major_threshold, health_state)
               /\ rejection_calls' =
                     IF rejection_calls >= 0 THEN rejection_calls + 1 ELSE -1
               /\ rejection_streak' = rejection_streak + 1
               /\ success_streak' = 0
               /\ streak_start' = "none"
          ELSE /\ consecutive_successes < MaxSuccesses
               /\ consecutive_successes' = consecutive_successes + 1
               /\ health_state' = recovered(consecutive_successes + 1,
                                            recovery_successes, health_state)
               /\ consecutive_429s' =
                     IF consecutive_successes + 1 >= recovery_successes * 2
                     THEN 0
                     ELSE reduced_429s(consecutive_429s)
               /\ rejection_calls' = -1
               /\ rejection_streak' = 0
               /\ success_streak' = success_streak + 1
               /\ streak_start' =
                     IF success_streak = 0 THEN health_state ELSE streak_start
       /\ health_call' = HealthCall("update_health", got_429, "None")
       /\ UNCHANGED health_config
       /\ UNCHANGED outside_degradation

\* minor degradation treated like major degradation
should_process_high_only(state, keyword_priority) ==
    IF state \in {"healthy", "recovery"} THEN TRUE
    ELSE keyword_priority = "HIGH"

\* every priority refused unless the state is healthy
should_process_when_healthy(state, keyword_priority) == state = "healthy"

\* should_process_keyword: the decision for a health state and a priority
should_process(state, keyword_priority) ==
    IF state = "healthy" THEN TRUE
    ELSE IF state = "recovery" THEN TRUE
    ELSE IF state = "degraded_minor" THEN keyword_priority \in {"HIGH", "MEDIUM"}
    ELSE IF state = "degraded_major" THEN keyword_priority = "HIGH"
    ELSE FALSE

should_process_keyword ==
    \E keyword_priority \in Priorities :
       /\ health_call' = HealthCall("should_process_keyword", keyword_priority,
                                    should_process(health_state, keyword_priority))
       /\ UNCHANGED <<health_config, health, health_history>>
       /\ UNCHANGED outside_degradation

\* the dictionary get_health_status returns
health_status ==
    [ health_state |-> health_state,
      consecutive_429s |-> consecutive_429s,
      consecutive_successes |-> consecutive_successes,
      processing_all |-> health_state \in {"healthy", "recovery"} ]

get_health_status ==
    /\ health_call' = HealthCall("get_health_status", "None", health_status)
    /\ UNCHANGED <<health_config, health, health_history>>
    /\ UNCHANGED outside_degradation

degradation_reset ==
    /\ health_state' = "healthy"
    /\ consecutive_429s' = 0
    /\ consecutive_successes' = 0
    /\ health_call' = HealthCall("reset", "None", "None")
    /\ rejection_calls' = 0
    /\ rejection_streak' = 0
    /\ success_streak' = 0
    /\ streak_start' = "none"
    /\ UNCHANGED health_config
    /\ UNCHANGED outside_degradation

----------------------------------------------------------------------------
(* QuotaAnalyzer *)

\* record_result(True, ...) calls per behaviour
MaxSuccessRecords == 11
\* record_result(True) calls per behaviour of a caller that keeps to its
\* routine
MaxPeriodic == 20
\* departures from the caller's routine per behaviour: failures recorded,
\* timestamps supplied by the caller, resets (all of them explored from the
\* last success before detection becomes possible), changes of pace (explored
\* around the MinDeltas-th interval)
MaxDisturbances == 2
\* the interval of a caller that issues requests periodically
Period == 300
\* how far in the past a timestamp supplied by the caller lies
SuppliedLag == 450

\* len(self.success_timestamps) < 10
MinSuccesses == 10
\* len(deltas) < 5
MinDeltas == 5
\* np.histogram(deltas, bins=20)
Bins == 20
\* fixed point of a window and of a predicted time: one second is
\* WindowScale, a scale in which bin edges and bin centres are exact
WindowScale == 40

\* Optional[float]: None, or a value
Nothing == [none |-> TRUE, value |-> 0]

Some(v) == [none |-> FALSE, value |-> v]

\* the intervals at which a caller issues requests
QuotaGaps == {Period, Hour}
\* should_wait_for_reset's argument: the default, and twice as long
WaitThresholds == {300, 600}
\* __init__'s argument: the settings explored, for a caller whose first
\* pace is Period
QuotaConfigs ==
    [ size : {1000, MinSuccesses}, pace : {Period},
      requests : {MaxSuccessRecords}, disturbances : {MaxDisturbances} ]
\* QuotaAnalyzer() and a caller that records a success every Period seconds
\* and nothing else
PeriodicQuota ==
    [size |-> 1000, pace |-> Period, requests |-> MaxPeriodic, disturbances |-> 0]
\* QuotaAnalyzer(), the default of __init__, and nobody calling it
DefaultQuota == [size |-> 1000, pace |-> Period, requests |-> 0, disturbances |-> 0]

QuotaCall(op, arg, value) == [op |-> op, arg |-> arg, value |-> value]

FreshQuota(c) ==
    /\ history_size = c.size
    /\ success_timestamps = << >>
    /\ failure_timestamps = << >>
    /\ detected_window = Nothing
    /\ quota_call = QuotaCall("__init__", "None", "None")
    /\ requests_planned = c.requests
    /\ disturbances_planned = c.disturbances
    /\ pace = c.pace
    /\ success_now = FALSE
    /\ successes_recorded = 0
    /\ disturbances = 0

InitQuota == \E c \in QuotaConfigs : FreshQuota(c)

\* the caller has recorded all but one of the successes detection needs
late == successes_recorded >= MinSuccesses - 1

\* record_result(success, timestamp); timestamp None is time.time()
record_result ==
    \E success \in BOOLEAN, supplied \in BOOLEAN :
        LET timestamp == IF supplied THEN now - SuppliedLag ELSE now
            departs == IF success /\ ~supplied THEN 0 ELSE 1
        IN  /\ supplied => timestamp >= 0
            /\ disturbances + departs <= disturbances_planned
            /\ departs > 0 => late
            /\ success => successes_recorded < requests_planned
            /\ (success /\ ~supplied) => ~success_now
            /\ IF success
               THEN /\ success_timestamps' =
                          deque_append(success_timestamps, timestamp, history_size)
                    /\ UNCHANGED failure_timestamps
               ELSE /\ failure_timestamps' =
                          deque_append(failure_timestamps, timestamp, history_size)
                    /\ UNCHANGED success_timestamps
            /\ quota_call' = QuotaCall("record_result", success, "None")
            /\ success_now' = (success_now \/ (success /\ ~supplied))
            /\ successes_recorded' = successes_recorded + (IF success THEN 1 ELSE 0)
            /\ disturbances' = disturbances + departs
            /\ UNCHANGED <<history_size, detected_window, quota_plan, pace, now>>
            /\ UNCHANGED outside_quota

\* sorted(...): x put in its place in the sorted sequence s
RECURSIVE sorted(_)
insert(x, s) ==
    LET k == Cardinality({i \in 1..Len(s) : s[i] <= x})
    IN  SubSeq(s, 1, k) \o <<x>> \o SubSeq(s, k + 1, Len(s))

sorted(s) ==
    IF s = << >> THEN << >>
    ELSE insert(s[Len(s)], sorted(SubSeq(s, 1, Len(s) - 1)))

\* np.diff
diff(s) == [i \in 1..(Len(s) - 1) |-> s[i + 1] - s[i]]

\* deltas[deltas < 3600]
below_hour(d) == SelectSeq(d, LAMBDA x : x < Hour)

\* max(...) of a sequence that is not empty
maximum(s) == CHOOSE x \in {s[i] : i \in 1..Len(s)} : \A i \in 1..Len(s) : s[i] <= x

minimum(s) == CHOOSE x \in {s[i] : i \in 1..Len(s)} : \A i \in 1..Len(s) : s[i] >= x

\* np.histogram: the first edge of the range lo..hi; a range of one value is
\* widened by 0.5 on each side
first_edge(lo, hi) ==
    IF lo = hi THEN lo * WindowScale - WindowScale \div 2 ELSE lo * WindowScale

\* np.histogram: the width of each of the bins over lo..hi
bin_width(lo, hi) ==
    IF lo = hi THEN WindowScale \div Bins ELSE ((hi - lo) * WindowScale) \div Bins

\* np.histogram: the bin of x, counted from 0; the last bin holds its right
\* edge
bin_of(x, lo, hi) ==
    LET i == (x * WindowScale - first_edge(lo, hi)) \div bin_width(lo, hi)
    IN  IF i = Bins THEN Bins - 1 ELSE i

\* np.histogram: the counts
hist(d) ==
    LET lo == minimum(d)
        hi == maximum(d)
        bin == [j \in 1..Len(d) |-> bin_of(d[j], lo, hi)]
    IN  [b \in 0..(Bins - 1) |-> Cardinality({j \in 1..Len(d) : bin[j] = b})]

\* np.argmax: the first of the largest
argmax(h) ==
    LET top == CHOOSE n \in {h[b] : b \in DOMAIN h} : \A c \in DOMAIN h : h[c] <= n
    IN  CHOOSE b \in DOMAIN h : h[b] = top /\ \A c \in DOMAIN h : c < b => h[c] < top

\* the left edge of the bin taken for its centre
modal_left_edge(d) ==
    LET lo == minimum(d)
        hi == maximum(d)
    IN  first_edge(lo, hi) + bin_width(lo, hi) * argmax(hist(d))

\* (bins[modal_index] + bins[modal_index + 1]) / 2
modal_window(d) ==
    LET lo == minimum(d)
        hi == maximum(d)
    IN  first_edge(lo, hi) + bin_width(lo, hi) * argmax(hist(d))
            + bin_width(lo, hi) \div 2

\* an estimate from four deltas
too_few_deltas_lax(d) == Len(d) < MinDeltas - 1

\* len(deltas) < 5
too_few_deltas(d) == Len(d) < MinDeltas

\* detect_quota_window's return value for the successes st
detected(st) ==
    IF Len(st) < MinSuccesses THEN Nothing
    ELSE LET d == below_hour(diff(sorted(st)))
         IN  IF too_few_deltas(d) THEN Nothing ELSE Some(modal_window(d))

detect_quota_window ==
    LET window == detected(success_timestamps)
    IN  /\ detected_window' = IF window.none THEN detected_window ELSE window
        /\ quota_call' = QuotaCall("detect_quota_window", "None", window)
        /\ UNCHANGED <<history_size, quota_history, quota_caller, now>>
        /\ UNCHANGED outside_quota

\* the first failure recorded taken for the last
last_failure_first(ft) == ft[1]

\* last_failure = max(self.failure_timestamps)
last_failure(ft) == maximum(ft)

\* predict_next_reset: the window used, None when there is none
window_used(st, dw) == IF dw.none THEN detected(st) ELSE dw

\* predict_next_reset's return value
predicted(ft, st, dw) ==
    IF ft = << >> THEN Nothing
    ELSE LET window == window_used(st, dw)
         IN  IF window.none THEN Nothing
             ELSE Some(last_failure(ft) * WindowScale + window.value)

\* predict_next_reset: detected_window after the call
window_after(ft, st, dw) == IF ft = << >> THEN dw ELSE window_used(st, dw)

predict_next_reset ==
    /\ quota_call' = QuotaCall("predict_next_reset", "None",
                               predicted(failure_timestamps, success_timestamps,
                                         detected_window))
    /\ detected_window' =
          window_after(failure_timestamps, success_timestamps, detected_window)
    /\ UNCHANGED <<history_size, quota_history, quota_caller, now>>
    /\ UNCHANGED outside_quota

\* a wait recommended however long it is
should_wait_unbounded(p, wait_threshold, current_time) ==
    IF p.none THEN FALSE
    ELSE p.value - current_time * WindowScale > 0

\* should_wait_for_reset's return value for the prediction p
should_wait(p, wait_threshold, current_time) ==
    IF p.none THEN FALSE
    ELSE LET wait_time == p.value - current_time * WindowScale
         IN  IF wait_time <= 0 THEN FALSE
             ELSE IF wait_time > wait_threshold * WindowScale THEN FALSE
             ELSE TRUE

should_wait_for_reset ==
    \E wait_threshold \in WaitThresholds :
        /\ quota_call' =
              QuotaCall("should_wait_for_reset", wait_threshold,
                        should_wait(predicted(failure_timestamps, success_timestamps,
                                              detected_window),
                                    wait_threshold, now))
        /\ detected_window' =
              window_after(failure_timestamps, success_timestamps, detected_window)
        /\ UNCHANGED <<history_size, quota_history, quota_caller, now>>
        /\ UNCHANGED outside_quota

\* get_stats's return value; detected_window_minutes is detected_window / 60
quota_stats ==
    [ total_successes |-> Len(success_timestamps),
      total_failures |-> Len(failure_timestamps),
      detected_window_seconds |-> detected_window,
      predicted_next_reset |->
          predicted(failure_timestamps, success_timestamps, detected_window) ]

quota_get_stats ==
    /\ quota_call' = QuotaCall("get_stats", "None", quota_stats)
    /\ detected_window' =
          window_after(failure_timestamps, success_timestamps, detected_window)
    /\ UNCHANGED <<history_size, quota_history, quota_caller, now>>
    /\ UNCHANGED outside_quota

quota_reset ==
    /\ late
    /\ disturbances < disturbances_planned
    /\ disturbances' = disturbances + 1
    /\ success_timestamps' = << >>
    /\ failure_timestamps' = << >>
    /\ detected_window' = Nothing
    /\ quota_call' = QuotaCall("reset", "None", "None")
    /\ UNCHANGED <<history_size, quota_plan, pace, success_now, successes_recorded, now>>
    /\ UNCHANGED outside_quota

\* the caller is at the interval that decides whether MinDeltas deltas
\* below an hour will remain
deciding == successes_recorded \in {MinDeltas, MinDeltas + 1}

\* time passes between two requests: the caller's interval, or the other one
\* (a change of pace, explored at the deciding intervals)
tick ==
    \E gap \in QuotaGaps :
        /\ success_now
        /\ gap # pace => (deciding /\ disturbances < disturbances_planned)
        /\ now' = now + gap
        /\ pace' = gap
        /\ disturbances' = disturbances + (IF gap # pace THEN 1 ELSE 0)
        /\ success_now' = FALSE
        /\ quota_call' = QuotaCall("tick", "None", "None")
        /\ UNCHANGED <<history_size, quota_history, detected_window, quota_plan,
                       successes_recorded>>
        /\ UNCHANGED outside_quota

----------------------------------------------------------------------------
(* MetricsCollector *)

\* record_request calls since construction or the last reset
MaxRequests == 20

\* int(len(sorted_times) * 0.95), as a fraction
PercentileNum == 95
PercentileDen == 100

\* HTTP status codes reported
StatusCodes == {200, 429, 500}
\* __init__'s argument: the default, and a window that fills up
WindowSizes == {100, 3}
\* MetricsCollector(): the default of __init__, observing a service whose
\* responses get slower
DefaultCollector == [window |-> 100, trend |-> "rising"]
CollectorConfigs == [window : WindowSizes, trend : {"rising", "falling"}]

MetricsCall(op, value) == [op |-> op, value |-> value]

FreshCollector(c) ==
    /\ window_size = c.window
    /\ requests_total = 0
    /\ requests_success = 0
    /\ requests_429 = 0
    /\ requests_failed = 0
    /\ response_times = << >>
    /\ metrics_call = MetricsCall("__init__", "None")
    /\ trend = c.trend

InitCollector == \E c \in CollectorConfigs : FreshCollector(c)

\* the response time, in whole seconds, of the request made after n others
response_time_of(n) == IF trend = "rising" THEN n + 1 ELSE MaxRequests - n

\* every request counted as failed
failed_always(n, success) == n + 1

\* requests_success after a request
success_after(n, success) == IF success THEN n + 1 ELSE n

\* requests_failed after a request
failed_after(n, success) == IF success THEN n ELSE n + 1

\* requests_429 after a request
rejected_after(n, status_code) == IF status_code = 429 THEN n + 1 ELSE n

record_request ==
    \E success \in BOOLEAN, status_code \in StatusCodes :
        /\ requests_total < MaxRequests
        /\ requests_total' = requests_total + 1
        /\ requests_success' = success_after(requests_success, success)
        /\ requests_failed' = failed_after(requests_failed, success)
        /\ requests_429' = rejected_after(requests_429, status_code)
        /\ response_times' =
              deque_append(response_times, response_time_of(requests_total),
                           window_size)
        /\ metrics_call' = MetricsCall("record_request", "None")
        /\ UNCHANGED <<window_size, trend>>
        /\ UNCHANGED outside_collector

\* a ratio, as the code's float: numerator over denominator
Ratio(n, d) == [num |-> n, den |-> d]

\* get_success_rate's return value, a percentage
success_rate ==
    IF requests_total = 0 THEN Ratio(0, 1)
    ELSE Ratio(requests_success * 100, requests_total)

get_success_rate ==
    /\ metrics_call' = MetricsCall("get_success_rate", success_rate)
    /\ UNCHANGED <<window_size, totals, response_times, trend>>
    /\ UNCHANGED outside_collector

RECURSIVE sum(_)
\* sum of a sequence of numbers
sum(s) == IF s = << >> THEN 0 ELSE Head(s) + sum(Tail(s))

\* get_avg_response_time's return value: statistics.mean
avg_response_time ==
    IF response_times = << >> THEN Ratio(0, 1)
    ELSE Ratio(sum(response_times), Len(response_times))

get_avg_response_time ==
    /\ metrics_call' = MetricsCall("get_avg_response_time", avg_response_time)
    /\ UNCHANGED <<window_size, totals, response_times, trend>>
    /\ UNCHANGED outside_collector

\* index = int(len(sorted_times) * 0.95), counted from 0
p95_index(n) == (n * PercentileNum) \div PercentileDen

\* get_p95_response_time's return value for the window rt
p95(rt) ==
    IF rt = << >> THEN 0
    ELSE LET sorted_times == sorted(rt)
             index == p95_index(Len(sorted_times))
         IN  IF index < Len(sorted_times) THEN sorted_times[index + 1]
             ELSE sorted_times[Len(sorted_times)]

get_p95_response_time ==
    /\ metrics_call' = MetricsCall("get_p95_response_time", p95(response_times))
    /\ UNCHANGED <<window_size, totals, response_times, trend>>
    /\ UNCHANGED outside_collector

\* reset: self.__init__(window_size=self.window_size)
metrics_reset ==
    /\ requests_total' = 0
    /\ requests_success' = 0
    /\ requests_429' = 0
    /\ requests_failed' = 0
    /\ response_times' = << >>
    /\ metrics_call' = MetricsCall("reset", "None")
    /\ UNCHANGED <<window_size, trend>>
    /\ UNCHANGED outside_collector

----------------------------------------------------------------------------
(* ConfigTuner *)

\* sessions held in performance_history
MaxSessions == 11
\* departures from the caller's routine per behaviour: sessions other than
\* the usual one, saves that fail
MaxDepartures == 1

\* len(self.performance_history) < 3
MinToSuggest == 3
\* len(self.performance_history) < 5
MinToTune == 5
\* self.performance_history[-10:]
RecentSessions == 10
\* avg_success < 80
LowSuccess == 80
\* avg_success > 95
HighSuccess == 95
\* current_delay > 5, max(5, ...), in seconds
DelayFloor == 5
\* current_delay + 2, in seconds
SlowDown == 2
\* current_delay - 1, in seconds
SpeedUp == 1
\* fixed point of base_delay: one second is DelayScale
DelayScale == 2

\* record_session's arguments, as the record they make: the sessions
\* explored (base_delay 15, 5.5, 5, 6 and 10 s)
Sessions ==
    { [base_delay |-> 30, requests_per_hour |-> 150, success_rate |-> 99,
       response_time |-> 2, requests_total |-> 0],
      [base_delay |-> 11, requests_per_hour |-> 200, success_rate |-> 99,
       response_time |-> 1, requests_total |-> 0],
      [base_delay |-> 10, requests_per_hour |-> 150, success_rate |-> 70,
       response_time |-> 1, requests_total |-> 0],
      [base_delay |-> 12, requests_per_hour |-> 100, success_rate |-> 80,
       response_time |-> 3, requests_total |-> 0],
      [base_delay |-> 20, requests_per_hour |-> 150, success_rate |-> 95,
       response_time |-> 2, requests_total |-> 0] }
\* suggest_optimal_config's argument: the default, and one no session meets
MinSuccessRates == {85, 100}
\* what becomes of the history file when it is saved: written in full, not
\* opened at all, or opened and left cut short
SaveOutcomes == {"saved", "denied", "torn"}

\* a call that returned: what was called, with what, and what came back
TunerCall(op, arg, value) ==
    [op |-> op, arg |-> arg, value |-> value, exc |-> "None"]

\* the history file: missing, holding a complete dump of records, or
\* holding a dump that breaks off
NoFile == [state |-> "absent", records |-> << >>]

\* ConfigTuner() where no history file exists
FreshTuner(usual) ==
    /\ performance_history = << >>
    /\ history_file = NoFile
    /\ tuner_call = TunerCall("__init__", "None", "None")
    /\ routine = usual
    /\ departures = 0

InitTuner == \E usual \in Sessions : FreshTuner(usual)

\* the session of the docstring's example, for a tuner nobody calls
DefaultSession == CHOOSE s \in Sessions : s.base_delay = 30

\* _save_history: the file afterwards.  json.dump of the records followed
\* by json.load gives the same records back; a dump that breaks off leaves
\* text that json.load rejects.
saved(file, h, outcome) ==
    IF outcome = "saved" THEN [state |-> "complete", records |-> h]
    ELSE IF outcome = "torn" THEN [state |-> "torn", records |-> h]
    ELSE file

\* the records whose text is whole in the file.  A dump that breaks off
\* does so inside its last record: the records before it are whole.
persisted(file) ==
    IF file.state = "complete" THEN file.records
    ELSE IF file.state = "torn" /\ Len(file.records) > 0
    THEN SubSeq(file.records, 1, Len(file.records) - 1)
    ELSE << >>

\* _load_history: performance_history afterwards.  json.load reads the
\* whole text or raises; the exception leaves the history empty.
loaded(file) == IF file.state = "complete" THEN file.records ELSE << >>

\* a failed save let through to the caller
save_exc_propagated(outcome) == IF outcome = "saved" THEN "None" ELSE "OSError"

\* what _save_history raises: nothing, `except Exception` logs the failure
save_exc(outcome) == "None"

\* what _load_history raises: nothing, `except Exception` logs the failure
load_exc(file) == "None"

\* a new ConfigTuner on the same history file
restart ==
    /\ performance_history' = loaded(history_file)
    /\ tuner_call' = [TunerCall("restart", "None", "None")
                          EXCEPT !.exc = load_exc(history_file)]
    /\ UNCHANGED <<history_file, routine, departures>>
    /\ UNCHANGED outside_tuner

record_session ==
    \E session_record \in Sessions, outcome \in SaveOutcomes :
        LET departs == (IF session_record = routine THEN 0 ELSE 1)
                          + (IF outcome = "saved" THEN 0 ELSE 1)
        IN  /\ Len(performance_history) < MaxSessions
            /\ departures + departs <= MaxDepartures
            /\ performance_history' = Append(performance_history, session_record)
            /\ history_file' = saved(history_file, performance_history', outcome)
            /\ tuner_call' = [TunerCall("record_session", session_record, "None")
                                  EXCEPT !.exc = save_exc(outcome)]
            /\ departures' = departures + departs
            /\ UNCHANGED routine
            /\ UNCHANGED outside_tuner

\* Optional[Dict]: None, or suggest_optimal_config's dict
NoSuggestion ==
    [none |-> TRUE, base_delay |-> 0, requests_per_hour |-> 0,
     expected_success_rate |-> 0, expected_response_time |-> 0]

Suggestion(best) ==
    [none |-> FALSE, base_delay |-> best.base_delay,
     requests_per_hour |-> best.requests_per_hour,
     expected_success_rate |-> best.success_rate,
     expected_response_time |-> best.response_time]

\* the slower of two equally successful sessions preferred
key_less_slower(a, b) ==
    \/ a.success_rate < b.success_rate
    \/ a.success_rate = b.success_rate /\ a.response_time < b.response_time

\* (success_rate, -response_time) of a below that of b
key_less(a, b) ==
    \/ a.success_rate < b.success_rate
    \/ a.success_rate = b.success_rate /\ -a.response_time < -b.response_time

\* max(acceptable, key=...): the first of the largest
best_of(acceptable) ==
    acceptable[CHOOSE i \in 1..Len(acceptable) :
                  /\ \A j \in 1..Len(acceptable) : ~key_less(acceptable[i], acceptable[j])
                  /\ \A j \in 1..(i - 1) : key_less(acceptable[j], acceptable[i])]

\* suggest_optimal_config's return value
suggested(h, min_success_rate) ==
    IF Len(h) < MinToSuggest THEN NoSuggestion
    ELSE LET acceptable == SelectSeq(h, LAMBDA s : s.success_rate >= min_success_rate)
         IN  IF acceptable = << >> THEN NoSuggestion
             ELSE Suggestion(best_of(acceptable))

suggest_optimal_config ==
    \E min_success_rate \in MinSuccessRates :
        /\ tuner_call' = TunerCall("suggest_optimal_config", min_success_rate,
                                   suggested(performance_history, min_success_rate))
        /\ UNCHANGED <<performance_history, history_file, routine, departures>>
        /\ UNCHANGED outside_tuner

\* Optional[Dict]: None, or auto_tune's dict
NoAdjustment == [none |-> TRUE, base_delay |-> 0, reason |-> "none"]

Adjustment(new_delay, reason) ==
    [none |-> FALSE, base_delay |-> new_delay, reason |-> reason]

\* the whole history taken for the recent sessions
recent_all(h) == h

\* self.performance_history[-10:]
recent(h) == SubSeq(h, Max(1, Len(h) - RecentSessions + 1), Len(h))

\* the success rates of the sessions s
success_rates(s) == [i \in 1..Len(s) |-> s[i].success_rate]

\* auto_tune's return value; statistics.mean compared as sum against
\* bound times length
tuned(h) ==
    IF Len(h) < MinToTune THEN NoAdjustment
    ELSE LET total == sum(success_rates(recent(h)))
             n == Len(recent(h))
             current_delay == recent(h)[n].base_delay
         IN  IF total < LowSuccess * n
             THEN Adjustment(current_delay + SlowDown * DelayScale, "low")
             ELSE IF total > HighSuccess * n /\ current_delay > DelayFloor * DelayScale
             THEN Adjustment(Max(DelayFloor * DelayScale,
                                 current_delay - SpeedUp * DelayScale), "high")
             ELSE NoAdjustment

auto_tune ==
    /\ tuner_call' = TunerCall("auto_tune", "None", tuned(performance_history))
    /\ UNCHANGED <<performance_history, history_file, routine, departures>>
    /\ UNCHANGED outside_tuner

\* get_stats's return value; worst_success_rate and recent_avg are missing
\* from the dict of an empty history
tuner_stats ==
    IF performance_history = << >>
    THEN [total_sessions |-> 0, avg_success_rate |-> Ratio(0, 1),
          best_success_rate |-> 0, worst_success_rate |-> "missing",
          recent_avg |-> "missing"]
    ELSE LET rates == success_rates(performance_history)
         IN  [total_sessions |-> Len(performance_history),
              avg_success_rate |-> Ratio(sum(rates), Len(rates)),
              best_success_rate |-> maximum(rates),
              worst_success_rate |-> minimum(rates),
              recent_avg |-> Ratio(sum(success_rates(recent(performance_history))),
                                   Len(recent(performance_history)))]

tuner_get_stats ==
    /\ tuner_call' = TunerCall("get_stats", "None", tuner_stats)
    /\ UNCHANGED <<performance_history, history_file, routine, departures>>
    /\ UNCHANGED outside_tuner

tuner_reset ==
    \E outcome \in SaveOutcomes :
        LET departs == IF outcome = "saved" THEN 0 ELSE 1
        IN  /\ departures + departs <= MaxDepartures
            /\ performance_history' = << >>
            /\ history_file' = saved(history_file, << >>, outcome)
            /\ tuner_call' = [TunerCall("reset", "None", "None")
                                  EXCEPT !.exc = save_exc(outcome)]
            /\ departures' = departures + departs
            /\ UNCHANGED routine
            /\ UNCHANGED outside_tuner

----------------------------------------------------------------------------
(* The specifications *)

\* a rate limiter in use, beside components nobody calls
LimiterAlone ==
    /\ InitLimiter
    /\ FreshDegradation(DefaultDegradation)
    /\ FreshQuota(DefaultQuota)
    /\ FreshCollector(DefaultCollector)
    /\ FreshTuner(DefaultSession)

\* a degradation manager in use, beside components nobody calls
DegradationAlone ==
    /\ InitDegradation
    /\ FreshLimiter(DefaultLimiter)
    /\ FreshQuota(DefaultQuota)
    /\ FreshCollector(DefaultCollector)
    /\ FreshTuner(DefaultSession)

\* a quota analyzer in use, beside components nobody calls
QuotaAlone ==
    /\ InitQuota
    /\ FreshLimiter(DefaultLimiter)
    /\ FreshDegradation(DefaultDegradation)
    /\ FreshCollector(DefaultCollector)
    /\ FreshTuner(DefaultSession)

NextLimiter ==
    \/ wait_if_needed
    \/ record_success
    \/ record_failure
    \/ reset
    \/ should_circuit_break
    \/ get_stats
    \/ advance

SpecLimiter == LimiterAlone /\ [][NextLimiter]_vars

\* A caller that never calls reset
NextNoReset ==
    \/ wait_if_needed
    \/ record_success
    \/ record_failure
    \/ should_circuit_break
    \/ get_stats
    \/ advance

SpecNoReset == LimiterAlone /\ [][NextNoReset]_vars

\* A caller that may cancel a wait, and reports how its requests went
NextCancel ==
    \/ wait_if_needed
    \/ wait_if_needed_cancelled
    \/ record_success
    \/ record_failure
    \/ advance

SpecCancel == LimiterAlone /\ [][NextCancel]_vars

\* Two threads calling wait_if_needed and record_failure on one limiter
NextThreads ==
    \/ \E t \in Threads : wait_begin(t)
    \/ \E t \in Threads : pacing_done(t)
    \/ \E t \in Threads : enforce_hourly_limit(t)
    \/ \E t \in Threads : quota_done(t)
    \/ \E t \in Threads : record_request_time(t)
    \/ \E t \in Threads : failure_read(t)
    \/ \E t \in Threads : failure_write(t)

SpecThreads == LimiterAlone /\ [][NextThreads]_vars

NextDegradation ==
    \/ update_health
    \/ should_process_keyword
    \/ get_health_status
    \/ degradation_reset

SpecDegradation == DegradationAlone /\ [][NextDegradation]_vars

NextQuota ==
    \/ record_result
    \/ detect_quota_window
    \/ predict_next_reset
    \/ should_wait_for_reset
    \/ quota_get_stats
    \/ quota_reset
    \/ tick

SpecQuota == QuotaAlone /\ [][NextQuota]_vars

\* a quota analyzer fed by a caller that keeps to its routine
PeriodicAlone ==
    /\ FreshQuota(PeriodicQuota)
    /\ FreshLimiter(DefaultLimiter)
    /\ FreshDegradation(DefaultDegradation)
    /\ FreshCollector(DefaultCollector)
    /\ FreshTuner(DefaultSession)

NextPeriodic ==
    \/ record_result
    \/ detect_quota_window
    \/ predict_next_reset
    \/ should_wait_for_reset
    \/ quota_get_stats
    \/ tick

SpecPeriodic == PeriodicAlone /\ [][NextPeriodic]_vars

\* a metrics collector in use, beside components nobody calls
CollectorAlone ==
    /\ InitCollector
    /\ FreshLimiter(DefaultLimiter)
    /\ FreshDegradation(DefaultDegradation)
    /\ FreshQuota(DefaultQuota)
    /\ FreshTuner(DefaultSession)

NextCollector ==
    \/ record_request
    \/ get_success_rate
    \/ get_avg_response_time
    \/ get_p95_response_time
    \/ metrics_reset

SpecCollector == CollectorAlone /\ [][NextCollector]_vars

\* a config tuner in use, beside components nobody calls
TunerAlone ==
    /\ InitTuner
    /\ FreshLimiter(DefaultLimiter)
    /\ FreshDegradation(DefaultDegradation)
    /\ FreshQuota(DefaultQuota)
    /\ FreshCollector(DefaultCollector)

NextTuner ==
    \/ record_session
    \/ suggest_optimal_config
    \/ auto_tune
    \/ tuner_get_stats
    \/ tuner_reset
    \/ restart

SpecTuner == TunerAlone /\ [][NextTuner]_vars

----------------------------------------------------------------------------
(* The rate limiter's claims *)

\* a wait_if_needed call has just returned: the history gained an instant
WaitReturned == Len(returns') = Len(returns) + 1

\* C1: from a fresh or reset limiter, while only record_failure is called,
\* delay_multiplier is 1.5 after the 1st call, 2.0 after the 2nd, 3.0 after
\* the 3rd and every later one (it never decreases), and emergency_mode is
\* false after calls 1 and 2 and true from the 3rd call on.
C1_FailureLadder ==
    /\ failure_calls = 0 => delay_multiplier = MultScale /\ ~emergency_mode
    /\ failure_calls = 1 => 2 * delay_multiplier = 3 * MultScale /\ ~emergency_mode
    /\ failure_calls = 2 => delay_multiplier = 2 * MultScale /\ ~emergency_mode
    /\ failure_calls >= 3 => delay_multiplier = 3 * MultScale /\ emergency_mode

\* a fourth failure in a row since construction or reset has been recorded
C1_Witness == failure_calls = 4 /\ emergency_mode

\* C2: should_circuit_break() returns true exactly when consecutive_failures
\* is at least twice emergency_threshold, and the call changes nothing of
\* the limiter.
C2_CircuitBreak ==
    [][ret'.op = "should_circuit_break" =>
          /\ ret'.value = (consecutive_failures >= 2 * emergency_threshold)
          /\ UNCHANGED <<config, limiter>>]_vars

\* with emergency_threshold = 3 the breaker has answered true at 6 failures
C2_Witness ==
    /\ ret.op = "should_circuit_break"
    /\ emergency_threshold = 3
    /\ consecutive_failures = 6
    /\ ret.value = TRUE

\* C3: when wait_if_needed returns and an earlier call has returned, the
\* time since that earlier return is at least base_delay * delay_multiplier
\* * (emergency_multiplier in emergency mode) * J, with J = 0.85 outside
\* emergency mode and 0.75 in it, multiplier and mode as at the call.
C3_MinimumSpacing ==
    [][(WaitReturned /\ Len(returns) >= 1) =>
          (returns'[Len(returns')] - returns[Len(returns)]) * MultScale * JitterScale
             >= base_delay * delay_multiplier
                  * (IF emergency_mode THEN emergency_multiplier ELSE 1)
                  * (IF emergency_mode THEN 15 ELSE 17)]_vars

\* a second call has returned in emergency mode, after the least wait the
\* pacing allows there: 20 * 3.0 * 3 * 0.75 = 135 seconds
C3_Witness ==
    /\ ret.op = "wait_if_needed"
    /\ Len(returns) = 2
    /\ emergency_mode /\ base_delay = 20 /\ emergency_multiplier = 3
    /\ returns[2] - returns[1] = 135

\* the wait_if_needed returns of the hour that ends now (an instant exactly
\* one hour back is outside it)
ReturnsInLastHour == {i \in 1..Len(returns) : returns[i] > now - Hour}

C5_MultiplierBounds ==
    /\ delay_multiplier >= MultScale
    /\ emergency_mode => delay_multiplier >= 3 * MultScale

\* emergency mode entered again after a success and admitted requests
C5_Witness ==
    /\ emergency_mode
    /\ delay_multiplier = 3 * MultScale
    /\ failure_calls = -1
    /\ Len(returns) >= 1

\* C6: record_success() sets consecutive_failures to 0 and emergency_mode to
\* false and replaces delay_multiplier m by max(1.0, 0.8 * m); at baseline it
\* changes nothing of the limiter; it never touches the sliding window or
\* last_request_time.
C6_RecordSuccess ==
    [][ret'.op = "record_success" =>
          /\ consecutive_failures' = 0
          /\ emergency_mode' = FALSE
          /\ IF 8 * delay_multiplier >= 10 * MultScale
             THEN 10 * delay_multiplier' = 8 * delay_multiplier
             ELSE delay_multiplier' = MultScale
          /\ (consecutive_failures = 0 /\ ~emergency_mode
                /\ delay_multiplier = MultScale) => UNCHANGED limiter
          /\ UNCHANGED <<request_times, last_request_time, config>>]_vars

\* a success has been recorded in emergency mode: 3.0 became 2.4
C6_Witness ==
    /\ ret.op = "record_success"
    /\ 5 * delay_multiplier = 12 * MultScale
    /\ consecutive_failures = 0 /\ ~emergency_mode

\* C7: emergency_mode is false while fewer than emergency_threshold
\* consecutive failures are recorded and true once emergency_threshold are.
C7_ThresholdActivates ==
    emergency_mode <=> consecutive_failures >= emergency_threshold

\* C8: in emergency mode get_stats()['effective_delay'] is
\* base_delay * emergency_multiplier.
C8_EmergencyEffectiveDelay ==
    (ret.op = "get_stats" /\ ret.exc = "none" /\ emergency_mode) =>
        ret.value.effective_delay = base_delay * emergency_multiplier * MultScale

\* C9: the first wait_if_needed on a fresh limiter does not wait, and the
\* second is at least 0.9 * base_delay after the first whatever the jitter.
C9_NinetyPercentSpacing ==
    [][/\ (WaitReturned /\ Len(returns) = 0) => now' = now
       /\ (/\ WaitReturned /\ Len(returns) = 1
           /\ delay_multiplier = MultScale /\ ~emergency_mode)
          => 10 * (returns'[2] - returns[1]) >= 9 * base_delay]_vars

\* C10: wait_if_needed() never raises.
C10_NeverRaises == ret.op = "wait_if_needed" => ret.exc = "none"

C12_WindowWithinHour ==
    /\ Len(request_times) <= requests_per_hour
    /\ \A i \in 1..Len(request_times) :
          request_times[i] >= now - Hour /\ request_times[i] <= now

\* C34: record_failure adds exactly 1 to consecutive_failures and never
\* lowers delay_multiplier, whatever state it is called in.
C34_FailureNeverLowers ==
    [][ret'.op = "record_failure"
          => /\ consecutive_failures' = consecutive_failures + 1
             /\ delay_multiplier' >= delay_multiplier]_vars

\* C35: a wait_if_needed that the caller cancels in either of its sleeps
\* records no request: the sliding window gains no entry (it may have lost
\* expired ones), and last_request_time, consecutive_failures,
\* emergency_mode and delay_multiplier are as they were.
C35_CancelRecordsNothing ==
    [][(ret'.op = "wait_if_needed" /\ ret'.exc = "KeyboardInterrupt")
          => /\ \E k \in 0..Len(request_times) :
                    request_times' = SubSeq(request_times, k + 1, Len(request_times))
             /\ last_request_time' = last_request_time
             /\ consecutive_failures' = consecutive_failures
             /\ emergency_mode' = emergency_mode
             /\ delay_multiplier' = delay_multiplier
             /\ returns' = returns]_vars

\* the hourly sleep cancelled: the window is full and the request that
\* filled it is still the last one recorded
C35_Witness ==
    /\ ret.op = "wait_if_needed"
    /\ ret.exc = "KeyboardInterrupt"
    /\ ret.value = "hourly"
    /\ Len(request_times) = requests_per_hour
    /\ last_request_time = request_times[Len(request_times)]
    /\ now > last_request_time

\* C36: two threads on one limiter are serialized.  Once both are out of
\* the limiter, any two requests admitted one after the other are at least
\* the smallest effective delay apart (base_delay at its lowest jitter),
\* no more than requests_per_hour requests were admitted in the hour that
\* ends with the last one, and consecutive_failures counts every
\* record_failure made since construction.
C36_Serialized ==
    (\A t \in Threads : pc[t] = "idle")
        => /\ \A i \in 1..(Len(returns) - 1) :
                 \E j \in NormalJitter \cup EmergencyJitter :
                    (returns[i + 1] - returns[i]) * JitterScale >= base_delay * j
           /\ requests_per_hour > 0
                 => Cardinality({i \in 1..Len(returns) :
                                   returns[i] > returns[Len(returns)] - Hour})
                       <= requests_per_hour
           /\ failure_calls >= 0 => consecutive_failures = failure_calls

C38_BreakOnlyInEmergency ==
    (ret.op = "should_circuit_break" /\ ret.exc = "none" /\ emergency_threshold >= 1)
        => (ret.value = TRUE => emergency_mode)

\* the number of record_success calls that take a multiplier m to 1.0 at
\* a factor of 0.8 a call: the least k with m * 0.8^k <= 1.0
StepsLeft(m) == CHOOSE k \in 0..20 :
    /\ m * 4^k <= MultScale * 5^k
    /\ \A i \in 0..(k - 1) : m * 4^i > MultScale * 5^i

\* C39: five record_success calls in a row bring delay_multiplier to 1.0
\* from any reachable state, and no record_success raises it: the
\* multiplier is never more than five calls away from 1.0, every
\* record_success brings it one call nearer and never above where it was
\* nor below 1.0, and only record_failure raises it.
C39_FiveSuccessesRecover ==
    [][/\ StepsLeft(delay_multiplier) <= 5
       /\ ret'.op = "record_success"
             => /\ delay_multiplier' <= delay_multiplier
                /\ delay_multiplier' >= MultScale
                /\ StepsLeft(delay_multiplier') = Max(0, StepsLeft(delay_multiplier) - 1)
       /\ ret'.op # "record_failure" => delay_multiplier' <= delay_multiplier]_vars

\* the fourth record_success in a row after the plateau of 3.0: 1.2288,
\* one call away from 1.0
C39_Witness ==
    /\ ret.op = "record_success"
    /\ delay_multiplier * 10000 = 12288 * MultScale
    /\ StepsLeft(delay_multiplier) = 1

----------------------------------------------------------------------------
(* The degradation manager's claims *)

RejectionReported ==
    health_call'.op = "update_health" /\ health_call'.arg = TRUE

SuccessReported ==
    health_call'.op = "update_health" /\ health_call'.arg = FALSE

\* C13: from a fresh manager with minor_threshold < major_threshold, after n
\* update_health(True) calls in a row the state is HEALTHY for
\* n < minor_threshold, DEGRADED_MINOR for minor_threshold <= n <
\* major_threshold and DEGRADED_MAJOR for n >= major_threshold.
C13_DegradationLadder ==
    (rejection_calls >= 0 /\ minor_threshold < major_threshold) =>
        health_state =
            IF rejection_calls < minor_threshold THEN "healthy"
            ELSE IF rejection_calls < major_threshold THEN "degraded_minor"
            ELSE "degraded_major"

\* thresholds 5 and 10: ten rejections in a row from fresh, DEGRADED_MAJOR
C13_Witness ==
    /\ minor_threshold = 5 /\ major_threshold = 10
    /\ rejection_calls = 10
    /\ health_state = "degraded_major"

\* C14: should_process_keyword(p) is decided by the health state and p:
\* HEALTHY and RECOVERY admit every priority, DEGRADED_MINOR admits HIGH and
\* MEDIUM, DEGRADED_MAJOR admits HIGH only; the call changes neither the
\* state nor the counters.
C14_Admission ==
    [][health_call'.op = "should_process_keyword" =>
          /\ health_call'.value =
                CASE health_state \in {"healthy", "recovery"} -> TRUE
                  [] health_state = "degraded_minor" -> health_call'.arg # "LOW"
                  [] health_state = "degraded_major" -> health_call'.arg = "HIGH"
          /\ UNCHANGED <<health_config, health>>]_vars

\* a LOW keyword has been refused under minor degradation
C14_Witness ==
    /\ health_call.op = "should_process_keyword"
    /\ health_call.arg = "LOW"
    /\ health_state = "degraded_minor"
    /\ health_call.value = FALSE

\* C15: in DEGRADED_MAJOR, update_health(True) leaves the state at
\* DEGRADED_MAJOR.
C15_MajorStaysMajor ==
    [][(RejectionReported /\ health_state = "degraded_major") =>
          health_state' = "degraded_major"]_vars

C17_FullRecovery ==
    success_streak >= 2 * recovery_successes =>
        health_state = "healthy" /\ consecutive_429s = 0

\* six successes in a row that began in DEGRADED_MAJOR, recovery_successes = 3
C17_Witness ==
    /\ recovery_successes = 3
    /\ streak_start = "degraded_major"
    /\ success_streak = 6
    /\ health_state = "healthy"

\* C18: in RECOVERY, one update_health(True) moves the manager to
\* DEGRADED_MINOR or DEGRADED_MAJOR.
C18_RecoverySlidesBack ==
    [][(RejectionReported /\ health_state = "recovery") =>
          health_state' \in {"degraded_minor", "degraded_major"}]_vars

C20_Counters ==
    [][/\ RejectionReported =>
             /\ consecutive_429s' = consecutive_429s + 1
             /\ consecutive_successes' = 0
       /\ SuccessReported =>
             /\ consecutive_successes' = consecutive_successes + 1
             /\ IF consecutive_successes' >= 2 * recovery_successes
                THEN health_state' = "healthy" /\ consecutive_429s' = 0
                ELSE /\ consecutive_429s' <= consecutive_429s
                     /\ consecutive_429s' >= consecutive_429s - 1
       /\ consecutive_429s' >= 0
       /\ consecutive_successes' >= 0]_vars

\* a success has lowered the counter from 10 to 9 under major degradation
C20_Witness ==
    /\ health_call.op = "update_health" /\ health_call.arg = FALSE
    /\ health_state = "degraded_major"
    /\ consecutive_429s = 9
    /\ consecutive_successes = 1

\* C21: in every reachable state should_process_keyword(HIGH) is true;
\* admission is monotone in priority (LOW admitted implies MEDIUM admitted,
\* MEDIUM admitted implies HIGH admitted); get_health_status()'s
\* processing_all is true exactly when LOW is admitted.
C21_HighAlwaysAdmitted ==
    /\ should_process(health_state, "HIGH")
    /\ should_process(health_state, "LOW") => should_process(health_state, "MEDIUM")
    /\ should_process(health_state, "MEDIUM") => should_process(health_state, "HIGH")
    /\ health_status.processing_all <=> should_process(health_state, "LOW")

\* a HIGH keyword has been admitted under major degradation
C21_Witness ==
    /\ health_state = "degraded_major"
    /\ health_call = HealthCall("should_process_keyword", "HIGH", TRUE)

----------------------------------------------------------------------------
(* The quota analyzer's claims *)

\* the deltas between consecutive successes, in time order, that are
\* shorter than an hour
DeltasKept(st) ==
    LET ts == sorted(st)
    IN  {i \in 1..(Len(ts) - 1) : ts[i + 1] - ts[i] < Hour}

C23_PeriodicWindow ==
    (/\ quota_call.op = "detect_quota_window"
     /\ Len(success_timestamps) = 20
     /\ \A i \in 1..19 : success_timestamps[i + 1] - success_timestamps[i] = 300)
    => /\ ~quota_call.value.none
       /\ quota_call.value.value >= 300 * WindowScale - WindowScale \div 2
       /\ quota_call.value.value <= 300 * WindowScale + WindowScale \div 2
       /\ LET d == diff(success_timestamps)
              left == first_edge(300, 300)
              width == bin_width(300, 300)
          IN  \E b \in 0..19 :
                 /\ \A j \in 1..Len(d) :
                       /\ d[j] * WindowScale >= left + b * width
                       /\ d[j] * WindowScale < left + (b + 1) * width
                 /\ 2 * quota_call.value.value =
                       (left + b * width) + (left + (b + 1) * width)

\* 300.025 s detected from 20 periodic successes
C23_Witness ==
    /\ quota_call.op = "detect_quota_window"
    /\ Len(success_timestamps) = 20
    /\ quota_call.value = Some(300 * WindowScale + 1)

\* C24: predict_next_reset() returns None when no failure is recorded, or
\* when no window is cached and none can be detected; otherwise it returns
\* the largest failure timestamp plus the window (the cached one, or else
\* the one detected now).
C24_Prediction ==
    [][quota_call'.op = "predict_next_reset" =>
          quota_call'.value =
             IF failure_timestamps = << >> THEN Nothing
             ELSE IF detected_window.none /\ detected(success_timestamps).none
                  THEN Nothing
             ELSE LET largest ==
                         CHOOSE f \in {failure_timestamps[i] :
                                          i \in 1..Len(failure_timestamps)} :
                            \A i \in 1..Len(failure_timestamps) :
                               failure_timestamps[i] <= f
                      window == IF detected_window.none
                                THEN detected(success_timestamps).value
                                ELSE detected_window.value
                  IN  Some(largest * WindowScale + window)]_vars

\* a prediction made from two failures of which the second is the later
C24_Witness ==
    /\ quota_call.op = "predict_next_reset"
    /\ ~quota_call.value.none
    /\ Len(failure_timestamps) = 2
    /\ failure_timestamps[1] < failure_timestamps[2]

\* C25: should_wait_for_reset(t) returns True exactly when
\* predict_next_reset() yields a time P with 0 < P - now <= t: False without
\* a prediction, False when P is not in the future, False when the wait
\* exceeds t.
C25_BoundedWait ==
    [][quota_call'.op = "should_wait_for_reset" =>
          LET P == predicted(failure_timestamps, success_timestamps, detected_window)
              t == quota_call'.arg
          IN  quota_call'.value <=>
                 /\ ~P.none
                 /\ 0 < P.value - now * WindowScale
                 /\ P.value - now * WindowScale <= t * WindowScale]_vars

\* a wait has been recommended
C25_Witness ==
    /\ quota_call.op = "should_wait_for_reset"
    /\ quota_call.value = TRUE

\* C26: success_timestamps and failure_timestamps are each in non-decreasing
\* timestamp order and hold at most history_size entries, whatever
\* timestamps the caller supplies.
C26_TimeOrdered ==
    /\ \A i \in 1..(Len(success_timestamps) - 1) :
          success_timestamps[i] <= success_timestamps[i + 1]
    /\ \A i \in 1..(Len(failure_timestamps) - 1) :
          failure_timestamps[i] <= failure_timestamps[i + 1]
    /\ Len(success_timestamps) <= history_size
    /\ Len(failure_timestamps) <= history_size

\* C40: a value returned by predict_next_reset() is the largest failure
\* timestamp plus the window that detect_quota_window() computes from the
\* successes now held; predict_next_reset() returns None whenever
\* detect_quota_window() would.
C40_PredictionFromCurrentHistory ==
    [][(quota_call'.op = "predict_next_reset" /\ ~quota_call'.value.none)
          => /\ ~detected(success_timestamps).none
             /\ quota_call'.value =
                   Some(last_failure(failure_timestamps) * WindowScale
                           + detected(success_timestamps).value)]_vars

----------------------------------------------------------------------------
(* The metrics collector's claims *)

\* C27: requests_total = requests_success + requests_failed and
\* requests_429 <= requests_total in every reachable state; each
\* record_request() adds exactly 1 to requests_total; none of the four
\* totals decreases but through reset().
C27_Totals ==
    [][/\ requests_total = requests_success + requests_failed
       /\ requests_429 <= requests_total
       /\ requests_total' = requests_success' + requests_failed'
       /\ requests_429' <= requests_total'
       /\ metrics_call'.op = "record_request" => requests_total' = requests_total + 1
       /\ metrics_call'.op # "reset" =>
             /\ requests_total' >= requests_total
             /\ requests_success' >= requests_success
             /\ requests_429' >= requests_429
             /\ requests_failed' >= requests_failed]_vars

\* successes, failures and rejections have all been counted
C27_Witness ==
    /\ metrics_call.op = "record_request"
    /\ requests_success = 2
    /\ requests_failed = 3
    /\ requests_429 = 2
    /\ requests_total = 5

\* C28: get_p95_response_time() returns 0 for an empty window and otherwise,
\* with n response times in the window sorted ascending, the one of rank
\* ceil(0.95 * n), counted from 1.
C28_NearestRank ==
    metrics_call.op = "get_p95_response_time" =>
        metrics_call.value =
            IF response_times = << >> THEN 0
            ELSE sorted(response_times)[CeilDiv(95 * Len(response_times), 100)]

----------------------------------------------------------------------------
(* The config tuner's claims *)

\* the success rates of the last 10 records of h, or of all when fewer
LastTenRates(h) ==
    LET n == IF Len(h) < 10 THEN Len(h) ELSE 10
    IN  [i \in 1..n |-> h[Len(h) - n + i].success_rate]

\* C29: auto_tune() returns None with fewer than 5 sessions recorded;
\* otherwise, with A the mean success_rate of the last 10 records and d the
\* base_delay of the latest: d + 2 if A < 80; max(5, d - 1), never below 5,
\* if A > 95 and d > 5; None in every other case.  It never modifies the
\* history.  (Delays are in units of 1/DelayScale s.)
C29_AutoTune ==
    [][tuner_call'.op = "auto_tune" =>
          LET h == performance_history
              rates == LastTenRates(h)
              d == h[Len(h)].base_delay
              answer == tuner_call'.value
          IN  /\ IF Len(h) < 5 THEN answer.none
                 ELSE IF sum(rates) < 80 * Len(rates)
                      THEN ~answer.none /\ answer.base_delay = d + 2 * DelayScale
                 ELSE IF sum(rates) > 95 * Len(rates) /\ d > 5 * DelayScale
                      THEN /\ ~answer.none
                           /\ answer.base_delay =
                                 (IF d - DelayScale > 5 * DelayScale
                                  THEN d - DelayScale ELSE 5 * DelayScale)
                           /\ answer.base_delay >= 5 * DelayScale
                 ELSE answer.none
              /\ performance_history' = performance_history
              /\ history_file' = history_file]_vars

\* a delay of 5.5 s has been tuned down to the floor of 5 s
C29_Witness ==
    /\ tuner_call.op = "auto_tune"
    /\ ~tuner_call.value.none
    /\ tuner_call.value.base_delay = 5 * DelayScale
    /\ performance_history[Len(performance_history)].base_delay = 11

\* a is ahead of b in (success_rate, -response_time), lexicographically
Ahead(a, b) ==
    \/ a.success_rate > b.success_rate
    \/ a.success_rate = b.success_rate /\ a.response_time < b.response_time

\* C30: suggest_optimal_config(min) returns None with fewer than 3 sessions
\* recorded or with no record of success_rate >= min; otherwise the
\* base_delay and requests_per_hour of a record with success_rate >= min
\* that no other such record is ahead of in (success_rate, -response_time).
C30_Suggestion ==
    [][tuner_call'.op = "suggest_optimal_config" =>
          LET h == performance_history
              min == tuner_call'.arg
              answer == tuner_call'.value
              meets == {i \in 1..Len(h) : h[i].success_rate >= min}
          IN  IF Len(h) < 3 \/ meets = {} THEN answer.none
              ELSE /\ ~answer.none
                   /\ \E i \in meets :
                         /\ \A j \in meets : ~Ahead(h[j], h[i])
                         /\ answer.base_delay = h[i].base_delay
                         /\ answer.requests_per_hour = h[i].requests_per_hour]_vars

\* of two sessions with the same success rate the faster has been suggested
C30_Witness ==
    /\ tuner_call.op = "suggest_optimal_config"
    /\ ~tuner_call.value.none
    /\ tuner_call.value.base_delay = 11
    /\ \E i \in 1..Len(performance_history) :
          /\ performance_history[i].success_rate = 99
          /\ performance_history[i].base_delay = 30
\* C31: the persisted log is append-only.  Every record_session adds its
\* record, and only that, at the end of the records the file holds, and
\* nothing but reset takes a record out of the file or changes one.
C31_AppendOnly ==
    [][/\ tuner_call'.op = "record_session"
          => persisted(history_file') = Append(persisted(history_file), tuner_call'.arg)
       /\ tuner_call'.op \notin {"record_session", "reset"}
          => persisted(history_file') = persisted(history_file)]_vars

\* C32: a new ConfigTuner on a file whose last write broke off starts with
\* the whole records of the file, the broken last one left out.
C32_TornTailIgnored ==
    (tuner_call.op = "restart" /\ history_file.state = "torn")
        => /\ tuner_call.exc = "None"
           /\ performance_history = persisted(history_file)

\* C33: no call raises whatever became of the history file, and a new
\* ConfigTuner on a file that cannot be read starts with an empty history.
C33_NeverFatal ==
    /\ tuner_call.exc = "None"
    /\ (tuner_call.op = "restart" /\ history_file.state = "torn")
          => performance_history = << >>

\* after a save that broke off and a load that failed, sessions are recorded
\* and both advisers answer
C33_Witness ==
    /\ history_file.state = "torn"
    /\ tuner_call.op = "auto_tune"
    /\ tuner_call.exc = "None"
    /\ Len(performance_history) >= MinToTune

====
